---------------------------- MODULE Spec2Model ----------------------------
(***************************************************************************)
(* A model of the rust-study library: the NaiveFID bit vector with rank    *)
(* and select (src/bits/fid.rs, src/bits/fid/naive_fid.rs) and the         *)
(* U8WaveletMatrix built from it (src/bits/wavelet_matrix.rs), the binary   *)
(* Heap (src/collections/heap.rs) and the NaiveTrie                        *)
(* (src/string/trie/naive_trie.rs).                                        *)
(*                                                                         *)
(* Conventions.                                                            *)
(*  - A Vec is a function whose domain is 0 .. len-1, so an index of the   *)
(*    model is the index of the source.                                    *)
(*  - A u64 block is the set of its bit positions that hold 1 (a subset of *)
(*    0 .. 63): |, &, ! and count_ones are union, intersection, complement *)
(*    and cardinality.                                                     *)
(*  - A usize is an integer of a window around 0 taken modulo 2^64: k >= 0 *)
(*    stands for k and -k stands for 2^64 - k, so usize::MAX is -1.        *)
(*    Comparisons are unsigned (ULt, ULe) and + and - report their carry.  *)
(*  - A call that can panic yields Panic or Ok(value).                     *)
(***************************************************************************)
EXTENDS Integers, Sequences, FiniteSets, TLC

VARIABLES
    overflow_checks, \* the build: TRUE = debug (overflow panics), FALSE = release (wraps)
    fid,             \* the NaiveFID under test: [n, blocks, popcount_offset]
    bv,              \* the Vec<bool> the tests keep beside the NaiveFID
    ret,             \* the last call on fid and what it returned
    u8s,             \* the Vec<u8> a wavelet matrix is built from
    wmat,            \* the U8WaveletMatrix: [n, matrix, offset]
    wret,            \* the last query on wmat and what it returned
    sel,             \* a select0 / select1 in progress: [pc, bit, i, beg, end, val]
    heap,            \* the Heap under test: [heap, compare]
    held,            \* how often each element was pushed and not yet popped
    pushes,          \* the calls of push so far
    pops,            \* the elements pop has returned so far
    hret,            \* the last call on heap and what it returned
    trie,            \* the NaiveTrie under test: a tree of [children, is_leaf]
    appended,        \* the strings append was called with
    tret             \* the last call on trie and what it returned

vars == <<overflow_checks, fid, bv, ret, u8s, wmat, wret, sel,
          heap, held, pushes, pops, hret, trie, appended, tret>>

heap_vars == <<heap, held, pushes, pops, hret>>

trie_vars == <<trie, appended, tret>>

(***************************************************************************)
(* Program constants and bounds                                            *)
(***************************************************************************)
WordBits == 64

MaxLen == 128

MaxSeqLen == 3

Alphabet == {0, 1, 2, 128, 255}

\* a symbol no sequence of the model holds
AbsentSymbols == {3}

LenOffsets == {0, 1, 63}

SetOffsets == {0, 63}

ProbeOffsets == {0, 1, 62, 63}

Lens == {m \in 0 .. MaxLen : m % WordBits \in LenOffsets}

Positions(n) == {i \in 0 .. (n - 1) : i % WordBits \in SetOffsets}

USIZE_MAX == 0 - 1

MaxPushes == 6

\* the i32 values pushed
HeapElems == 1 .. 4

MaxWordLen == 2

MaxAppended == 3

\* the chars of the strings, as code points: 'a' (one byte of UTF-8) and
\* HIRAGANA LETTER A (three bytes)
Chars == {97, 12354}

\* what a run of one structure's tests holds of the structures it does not use
SelIdle == [pc |-> "none", bit |-> FALSE, i |-> 0, beg |-> 0, end |-> 0, val |-> 0]

NoSelect == sel = SelIdle

HIdle == [op |-> "none", n |-> 0, m |-> 0, result |-> <<>>]

NoHeap ==
    /\ heap = [heap |-> <<>>, compare |-> "cmp"]
    /\ held = [x \in HeapElems |-> 0]
    /\ pushes = 0
    /\ pops = 0
    /\ hret = HIdle

TIdle == [op |-> "none", s |-> <<>>, seen |-> FALSE, ok |-> TRUE, val |-> 0]

NoTrie ==
    /\ trie = [children |-> <<>>, is_leaf |-> FALSE]
    /\ appended = {}
    /\ tret = TIdle

(***************************************************************************)
(* usize arithmetic and panics                                             *)
(***************************************************************************)
Panic == [ok |-> FALSE, val |-> 0]

Ok(v) == [ok |-> TRUE, val |-> v]

ULt(a, b) == IF (a < 0) = (b < 0) THEN a < b ELSE b < 0

ULe(a, b) == a = b \/ ULt(a, b)

\* a + b on usize: the sum carries out of 64 bits when exactly one operand is
\* of the upper window and the integer sum is no longer negative, or both are.
checked_add(a, b) ==
    LET carry == \/ (a < 0 /\ b < 0)
                 \/ ((a < 0) # (b < 0) /\ a + b >= 0)
    IN  IF carry /\ overflow_checks THEN Panic ELSE Ok(a + b)

\* a - b on usize: borrows exactly when a < b unsigned.
checked_sub(a, b) ==
    IF ULt(a, b) /\ overflow_checks THEN Panic ELSE Ok(a - b)

VecLen(v) == Cardinality(DOMAIN v)

AllOnes == 0 .. (WordBits - 1)

count_ones(block) == Cardinality(block)

(***************************************************************************)
(* NaiveFID                                                                *)
(***************************************************************************)
RECURSIVE popcount_loop(_, _, _, _)
popcount_loop(blocks, k, popcount, acc) ==
    IF k = VecLen(blocks) THEN acc
    ELSE popcount_loop(blocks, k + 1, popcount + count_ones(blocks[k]),
                       [j \in 0 .. k |-> IF j = k THEN popcount ELSE acc[j]])

construct_popcount_offset(blocks) == popcount_loop(blocks, 0, 0, <<>>)

new(n) ==
    LET block_count == (n \div WordBits) + 1
    IN  [n |-> n,
         blocks |-> [k \in 0 .. (block_count - 1) |-> {}],
         popcount_offset |-> [k \in 0 .. (block_count - 1) |-> 0]]

\* blocks[i / 64] |= 1 << (i % 64) for every i with vec[i]
from_bool_vec(vec) ==
    LET n == VecLen(vec)
        block_count == (n \div WordBits) + 1
        blocks == [k \in 0 .. (block_count - 1) |->
                     {index \in AllOnes :
                        /\ k * WordBits + index < n
                        /\ vec[k * WordBits + index]}]
    IN  [n |-> n,
         blocks |-> blocks,
         popcount_offset |-> construct_popcount_offset(blocks)]

\* Mutant of get: the assert is missing, only the Vec's own bounds check is left.
get_unchecked(self, i) ==
    LET block_idx == i \div WordBits
        bit_idx == i - block_idx * WordBits
    IN  IF i < 0 \/ block_idx \notin DOMAIN self.blocks THEN Panic
        ELSE Ok(bit_idx \in self.blocks[block_idx])

get(self, i) ==
    IF ~ULt(i, self.n) THEN Panic
    ELSE LET block_idx == i \div WordBits
             bit_idx == i - block_idx * WordBits
             mask == {bit_idx}
         IN  Ok((self.blocks[block_idx] \cap mask) # {})

\* Mutant of set: only the block right after the edited one has its offset
\* adjusted.
set_next_block_only(self, i, bit) ==
    IF ~ULt(i, self.n) THEN Panic
    ELSE LET block_idx == i \div WordBits
             bit_idx == i - block_idx * WordBits
             cur_bit == bit_idx \in self.blocks[block_idx]
             d == IF bit THEN 1 ELSE 0 - 1
         IN  IF cur_bit = bit THEN Ok(self)
             ELSE Ok([self EXCEPT
                        !.blocks[block_idx] =
                            IF bit THEN @ \cup {bit_idx} ELSE @ \ {bit_idx},
                        !.popcount_offset =
                            [k \in DOMAIN @ |->
                               IF k = block_idx + 1 THEN @[k] + d ELSE @[k]]])

\* Mutant of set: the block is assigned the mask (=) instead of or-ed with it (|=).
set_assigns_mask(self, i, bit) ==
    IF ~ULt(i, self.n) THEN Panic
    ELSE LET block_idx == i \div WordBits
             bit_idx == i - block_idx * WordBits
             cur_bit == bit_idx \in self.blocks[block_idx]
             later == {k \in DOMAIN self.popcount_offset : k > block_idx}
             d == IF bit THEN 1 ELSE 0 - 1
         IN  IF cur_bit = bit THEN Ok(self)
             ELSE Ok([self EXCEPT
                        !.blocks[block_idx] = IF bit THEN {bit_idx} ELSE @ \ {bit_idx},
                        !.popcount_offset =
                            [k \in DOMAIN @ |-> IF k \in later THEN @[k] + d ELSE @[k]]])

\* Mutant of set: the loops start at block_idx instead of block_idx + 1.
set_from_edited_block(self, i, bit) ==
    IF ~ULt(i, self.n) THEN Panic
    ELSE LET block_idx == i \div WordBits
             bit_idx == i - block_idx * WordBits
             cur_bit == bit_idx \in self.blocks[block_idx]
             later == {k \in DOMAIN self.popcount_offset : k >= block_idx}
         IN  IF cur_bit = bit THEN Ok(self)
             ELSE IF bit
             THEN Ok([self EXCEPT
                        !.blocks[block_idx] = @ \cup {bit_idx},
                        !.popcount_offset =
                            [k \in DOMAIN @ |-> IF k \in later THEN @[k] + 1 ELSE @[k]]])
             ELSE IF overflow_checks /\ \E k \in later : self.popcount_offset[k] = 0
             THEN Panic
             ELSE Ok([self EXCEPT
                        !.blocks[block_idx] = @ \ {bit_idx},
                        !.popcount_offset =
                            [k \in DOMAIN @ |-> IF k \in later THEN @[k] - 1 ELSE @[k]]])

set(self, i, bit) ==
    IF ~ULt(i, self.n) THEN Panic
    ELSE LET block_idx == i \div WordBits
             bit_idx == i - block_idx * WordBits
             mask == {bit_idx}
             cur_bit == (self.blocks[block_idx] \cap mask) # {}
             later == {k \in DOMAIN self.popcount_offset : k > block_idx}
         IN  IF cur_bit = bit THEN Ok(self)
             ELSE IF bit
             THEN Ok([self EXCEPT
                        !.blocks[block_idx] = @ \cup mask,
                        !.popcount_offset =
                            [k \in DOMAIN @ |-> IF k \in later THEN @[k] + 1 ELSE @[k]]])
             ELSE IF overflow_checks /\ \E k \in later : self.popcount_offset[k] = 0
             THEN Panic
             ELSE Ok([self EXCEPT
                        !.blocks[block_idx] = @ \ mask,
                        !.popcount_offset =
                            [k \in DOMAIN @ |-> IF k \in later THEN @[k] - 1 ELSE @[k]]])

len(self) == self.n

access(self, i) == get(self, i)

rank1(self, i) ==
    IF ~ULe(i, self.n) THEN Panic
    ELSE LET block_idx == i \div WordBits
             bit_idx == i - block_idx * WordBits
             mask == IF bit_idx = 0 THEN {} ELSE 0 .. (bit_idx - 1)
         IN  Ok(self.popcount_offset[block_idx]
                + count_ones(self.blocks[block_idx] \cap mask))

rank0(self, i) ==
    LET r == rank1(self, i)
    IN  IF ~r.ok THEN Panic ELSE checked_sub(i, r.val)

RECURSIVE select0_loop(_, _, _, _)
select0_loop(self, i, beg, end) ==
    LET p == (beg + end) \div 2
        rank == rank0(self, p)
    IN  IF ~rank.ok THEN Panic
        ELSE IF beg = end \/ beg + 1 = end THEN Ok(beg)
        ELSE IF ULt(i, rank.val) THEN select0_loop(self, i, beg, p)
        ELSE select0_loop(self, i, p, end)

select0(self, i) ==
    LET end == len(self)
        r == rank0(self, end)
    IN  IF ~r.ok THEN Panic
        ELSE IF ULe(r.val, i) THEN Ok(end)
        ELSE select0_loop(self, i, 0, end)

\* Mutant of the loop of select1: the comparison i < rank is written i <= rank.
RECURSIVE select1_loop_le(_, _, _, _)
select1_loop_le(self, i, beg, end) ==
    LET p == (beg + end) \div 2
        rank == rank1(self, p)
    IN  IF ~rank.ok THEN Panic
        ELSE IF beg = end \/ beg + 1 = end THEN Ok(beg)
        ELSE IF ULe(i, rank.val) THEN select1_loop_le(self, i, beg, p)
        ELSE select1_loop_le(self, i, p, end)

RECURSIVE select1_loop(_, _, _, _)
select1_loop(self, i, beg, end) ==
    LET p == (beg + end) \div 2
        rank == rank1(self, p)
    IN  IF ~rank.ok THEN Panic
        ELSE IF beg = end \/ beg + 1 = end THEN Ok(beg)
        ELSE IF ULt(i, rank.val) THEN select1_loop(self, i, beg, p)
        ELSE select1_loop(self, i, p, end)

select1(self, i) ==
    LET end == len(self)
        r == rank1(self, end)
    IN  IF ~r.ok THEN Panic
        ELSE IF ULe(r.val, i) THEN Ok(end)
        ELSE select1_loop(self, i, 0, end)

\* !0_u64 >> amount. A shift by 64 overflows: it panics under overflow checks
\* and otherwise shifts by amount % 64.
ones_shr(amount) ==
    IF amount >= WordBits
    THEN IF overflow_checks THEN Panic
         ELSE Ok(0 .. (WordBits - 1 - (amount % WordBits)))
    ELSE Ok(0 .. (WordBits - 1 - amount))

RECURSIVE not_loop(_, _, _, _)
not_loop(self, k, n, blocks) ==
    IF k = VecLen(self.blocks) THEN Ok(blocks)
    ELSE LET b == self.blocks[k]
         IN  IF n >= WordBits
             THEN not_loop(self, k + 1, n - WordBits,
                      [j \in 0 .. k |-> IF j = k THEN AllOnes \ b ELSE blocks[j]])
             ELSE LET m == ones_shr(WordBits - n)
                  IN  IF ~m.ok THEN Panic
                      ELSE not_loop(self, k + 1, n,
                               [j \in 0 .. k |->
                                  IF j = k THEN (AllOnes \ b) \cap m.val ELSE blocks[j]])

not(self) ==
    LET blocks == not_loop(self, 0, self.n, <<>>)
    IN  IF ~blocks.ok THEN Panic
        ELSE Ok([n |-> self.n,
                 blocks |-> blocks.val,
                 popcount_offset |-> construct_popcount_offset(blocks.val)])

eq(self, other) ==
    IF self.n # other.n THEN FALSE
    ELSE self.blocks = other.blocks

(***************************************************************************)
(* The NaiveFID under test: what the tests of src/bits/fid.rs do to it     *)
(***************************************************************************)
BoolVecs(n) == {[i \in 0 .. (n - 1) |-> i \in S] : S \in SUBSET Positions(n)}

OutOfBounds(n) == {n, n + 1, USIZE_MAX}

IndexArgs(n) == Positions(n) \cup OutOfBounds(n)

RankArgs(n) == {i \in 0 .. n : i % WordBits \in ProbeOffsets} \cup OutOfBounds(n)

\* select arguments around the number of ones and of zeros of the vector
SelectArgs(self) ==
    LET ones == rank1(self, self.n).val
    IN  {i \in {0, 1, ones - 1, ones, ones + 1,
                self.n - ones - 1, self.n - ones, self.n - ones + 1} : i >= 0}
        \cup {USIZE_MAX}

Idle == [op |-> "none", i |-> 0, bit |-> FALSE, ok |-> TRUE, val |-> 0]

Returned(op, i, bit, r) == [op |-> op, i |-> i, bit |-> bit, ok |-> r.ok, val |-> r.val]

\* The driver is the one of the tests (src/bits/fid.rs, tests::rank): construct,
\* change by any sequence of calls, then ask. A query changes nothing but ret, so
\* a run asks one question of the state it has reached; a panic ends the run.
Asked == ~ret.ok \/ ret.op \notin {"none", "set", "not"}

InitFID ==
    /\ overflow_checks \in BOOLEAN
    /\ \E n \in Lens :
         \/ fid = new(n) /\ bv = [i \in 0 .. (n - 1) |-> FALSE]
         \/ \E vec \in BoolVecs(n) : fid = from_bool_vec(vec) /\ bv = vec
    /\ ret = Idle
    /\ u8s = <<>>
    /\ wmat = [n |-> 0, matrix |-> <<>>, offset |-> <<>>]
    /\ wret = Idle
    /\ NoSelect /\ NoHeap /\ NoTrie

Set ==
    /\ ~Asked
    /\ \E i \in IndexArgs(fid.n), bit \in BOOLEAN :
        LET r == set(fid, i, bit)
        IN  /\ fid' = IF r.ok THEN r.val ELSE fid
            /\ bv' = IF r.ok THEN [bv EXCEPT ![i] = bit] ELSE bv
            /\ ret' = [op |-> "set", i |-> i, bit |-> bit, ok |-> r.ok, val |-> 0]
            /\ UNCHANGED <<sel, heap_vars, trie_vars, overflow_checks, u8s, wmat, wret>>

Get ==
    /\ ~Asked
    /\ \E i \in IndexArgs(fid.n) :
        /\ ret' = Returned("get", i, FALSE, get(fid, i))
        /\ UNCHANGED <<sel, heap_vars, trie_vars, overflow_checks, fid, bv, u8s, wmat, wret>>

Access ==
    /\ ~Asked
    /\ \E i \in IndexArgs(fid.n) :
        /\ ret' = Returned("access", i, FALSE, access(fid, i))
        /\ UNCHANGED <<sel, heap_vars, trie_vars, overflow_checks, fid, bv, u8s, wmat, wret>>

Rank0 ==
    /\ ~Asked
    /\ \E i \in RankArgs(fid.n) :
        /\ ret' = Returned("rank0", i, FALSE, rank0(fid, i))
        /\ UNCHANGED <<sel, heap_vars, trie_vars, overflow_checks, fid, bv, u8s, wmat, wret>>

Rank1 ==
    /\ ~Asked
    /\ \E i \in RankArgs(fid.n) :
        /\ ret' = Returned("rank1", i, FALSE, rank1(fid, i))
        /\ UNCHANGED <<sel, heap_vars, trie_vars, overflow_checks, fid, bv, u8s, wmat, wret>>

Select0 ==
    /\ ~Asked
    /\ \E i \in SelectArgs(fid) :
        /\ ret' = Returned("select0", i, FALSE, select0(fid, i))
        /\ UNCHANGED <<sel, heap_vars, trie_vars, overflow_checks, fid, bv, u8s, wmat, wret>>

Select1 ==
    /\ ~Asked
    /\ \E i \in SelectArgs(fid) :
        /\ ret' = Returned("select1", i, FALSE, select1(fid, i))
        /\ UNCHANGED <<sel, heap_vars, trie_vars, overflow_checks, fid, bv, u8s, wmat, wret>>

\* fid = !fid
Not ==
    LET r == not(fid)
    IN  /\ ~Asked
        /\ fid' = IF r.ok THEN r.val ELSE fid
        /\ bv' = IF r.ok THEN [i \in DOMAIN bv |-> ~bv[i]] ELSE bv
        /\ ret' = [op |-> "not", i |-> 0, bit |-> FALSE, ok |-> r.ok, val |-> 0]
        /\ UNCHANGED <<sel, heap_vars, trie_vars, overflow_checks, u8s, wmat, wret>>

\* assert_eq!(from_bool_vec(&bv), fid)
Eq ==
    /\ ~Asked
    /\ ret' = Returned("eq", 0, FALSE, Ok(eq(from_bool_vec(bv), fid)))
    /\ UNCHANGED <<sel, heap_vars, trie_vars, overflow_checks, fid, bv, u8s, wmat, wret>>

NextFID ==
    \/ Set
    \/ Get
    \/ Access
    \/ Rank0
    \/ Rank1
    \/ Select0
    \/ Select1
    \/ Not
    \/ Eq

SpecFID == InitFID /\ [][NextFID]_vars

(***************************************************************************)
(* Claims about NaiveFID, checked under SpecFID                            *)
(***************************************************************************)
RankProbes(n) == {i \in 0 .. n : i % WordBits \in ProbeOffsets} \cup {n}

\* the bits of the vector as get reads them
Bits(self) == [j \in 0 .. (self.n - 1) |-> get(self, j).val]

\* the positions j < i that hold `bit`
Holding(bits, i, bit) == {j \in 0 .. (i - 1) : bits[j] = bit}

\* C1: for every i in [0, len], rank1(i) is the number of positions j < i with
\* get(j) = true and rank0(i) the number with get(j) = false, so that
\* rank0(i) + rank1(i) = i.
C1_RankCountsBits ==
    LET bits == Bits(fid)
    IN  \A i \in RankProbes(fid.n) :
            LET r1 == rank1(fid, i)
                r0 == rank0(fid, i)
            IN  /\ r1.ok /\ r1.val = Cardinality(Holding(bits, i, TRUE))
                /\ r0.ok /\ r0.val = Cardinality(Holding(bits, i, FALSE))
                /\ r0.val + r1.val = i

\* C1 witness: a set has flipped a bit of the first block of a vector of three
\* blocks, and the ranks of the later blocks count it.
C1_Witness ==
    /\ ret.op = "set" /\ ret.ok /\ ret.bit /\ ret.i < WordBits
    /\ fid.n >= 2 * WordBits
    /\ rank1(fid, fid.n).val >= 3
    /\ fid.popcount_offset[2] >= 3

\* what select must return for the i-th bit `bit`, given its rank function
SelectIs(s, i, bit) ==
    LET rank(p) == IF bit THEN rank1(fid, p) ELSE rank0(fid, p)
        total == rank(fid.n).val
    IN  /\ s.ok
        /\ IF ULt(i, total)
           THEN /\ s.val \in 0 .. (fid.n - 1)
                /\ get(fid, s.val).val = bit
                /\ rank(s.val).val = i
                /\ \A p \in RankProbes(fid.n) \ {fid.n} :
                     (get(fid, p).val = bit /\ rank(p).val = i) => p = s.val
           ELSE s.val = fid.n

C3_NotOfAnyLength ==
    ret.op = "not" =>
        /\ ret.ok
        /\ fid.n = VecLen(bv)
        /\ \A i \in DOMAIN bv : get(fid, i).val = bv[i]
        /\ eq(fid, from_bool_vec(bv))

\* The complement is right when the last word is partial (n % 64 # 0).
NotOfPartialWord ==
    (ret.op = "not" /\ fid.n % WordBits # 0) =>
        /\ ret.ok
        /\ \A i \in DOMAIN bv : get(fid, i).val = bv[i]
        /\ eq(fid, from_bool_vec(bv))

\* C4, the step: an in-bounds set(i, bit) makes get(i) = bit, leaves get(j) for
\* every j # i and len unchanged, and changes nothing at all when the stored
\* bit already equals bit.
SetEffect ==
    (ret'.op = "set" /\ ret'.ok) =>
        /\ get(fid', ret'.i).val = ret'.bit
        /\ \A j \in 0 .. (fid.n - 1) : j # ret'.i => get(fid', j) = get(fid, j)
        /\ len(fid') = len(fid)
        /\ get(fid, ret'.i).val = ret'.bit => fid' = fid

\* C4, the consequence: every position holds the value last written to it, or
\* its initial value (bv, the vector the tests write beside the NaiveFID).
LastWritten ==
    /\ fid.n = VecLen(bv)
    /\ \A j \in DOMAIN bv : get(fid, j).ok /\ get(fid, j).val = bv[j]

\* C4: in-bounds set(i, bit) makes get(i) = bit, leaves every other position and
\* len unchanged, is a no-op when the bit is already stored, and so every
\* position holds the value last written to it.
C4_SetFrame == [][SetEffect]_vars /\ []LastWritten

\* C4 witness: a set has cleared a bit of the second block while another bit of
\* that block stays set.
C4_Witness ==
    /\ ret.op = "set" /\ ret.ok /\ ~ret.bit
    /\ ret.i = WordBits
    /\ fid.blocks[1] = {WordBits - 1}

\* C5: two NaiveFID values are equal (==) if and only if they have the same
\* length and the same bit at every position, however each was produced.
C5_EqIffSameBits ==
    \A n \in {fid.n, VecLen(bv)} : \A vec \in BoolVecs(n) \cup {bv} :
        eq(fid, from_bool_vec(vec))
            <=> /\ fid.n = VecLen(vec)
                /\ \A i \in DOMAIN vec : get(fid, i).val = vec[i]

\* C6, the state part: get, access and set at i >= len and rank0, rank1 at
\* i > len panic; rank0(len) and rank1(len) do not.
OutOfBoundsPanics ==
    /\ \A i \in {fid.n, fid.n + 1, fid.n + WordBits - 1, USIZE_MAX} :
         /\ ~get(fid, i).ok
         /\ ~access(fid, i).ok
         /\ \A bit \in BOOLEAN : ~set(fid, i, bit).ok
    /\ \A i \in {fid.n + 1, fid.n + WordBits - 1, fid.n + WordBits, USIZE_MAX} :
         /\ ~rank0(fid, i).ok
         /\ ~rank1(fid, i).ok
    /\ rank0(fid, fid.n).ok
    /\ rank1(fid, fid.n).ok

\* C6, the step: a set that panics leaves the bit vector as it was.
FailedSetKeepsState ==
    (ret'.op = "set" /\ ~ret'.ok) => (fid' = fid /\ ~ULt(ret'.i, fid.n))

\* C6: get, access and set at i >= len and rank0, rank1 at i > len panic
\* instead of returning a value; a failing set leaves the state unchanged;
\* rank0(len) and rank1(len) do not fail, multiples of 64 included.
C6_BoundsFailFast == []OutOfBoundsPanics /\ [][FailedSetKeepsState]_vars

\* C6 witness: set at i = len has panicked on a vector of exactly two words.
C6_Witness ==
    /\ ret.op = "set" /\ ~ret.ok /\ ret.i = fid.n
    /\ fid.n = 2 * WordBits
    /\ rank1(fid, fid.n).ok /\ rank1(fid, fid.n).val >= 1

\* the number of set bits in blocks[0..k)
RECURSIVE SetBitsBefore(_, _)
SetBitsBefore(blocks, k) ==
    IF k = 0 THEN 0 ELSE SetBitsBefore(blocks, k - 1) + count_ones(blocks[k - 1])

\* C17, the state: len / 64 + 1 blocks, one popcount_offset entry per block, and
\* popcount_offset[k] is the number of set bits in blocks[0..k).
PopcountOffsetsAreSums ==
    /\ VecLen(fid.blocks) = (fid.n \div WordBits) + 1
    /\ VecLen(fid.popcount_offset) = VecLen(fid.blocks)
    /\ \A k \in DOMAIN fid.popcount_offset :
          fid.popcount_offset[k] = SetBitsBefore(fid.blocks, k)

\* C17, the step: an in-bounds set does not fail, and one that flips a bit of
\* block b moves popcount_offset[k] by +1 (bit set) or -1 (bit cleared) for every
\* k > b and leaves the entries k <= b as they are.
SetMovesLaterOffsets ==
    ret'.op = "set" =>
        LET b == ret'.i \div WordBits
            d == IF ret'.bit THEN 1 ELSE 0 - 1
        IN  /\ (ret'.i >= 0 /\ ret'.i < fid.n) => ret'.ok
            /\ (ret'.ok /\ fid'.blocks # fid.blocks) =>
                  \A k \in DOMAIN fid.popcount_offset :
                     /\ k > b => fid'.popcount_offset[k] = fid.popcount_offset[k] + d
                     /\ k <= b => fid'.popcount_offset[k] = fid.popcount_offset[k]
                     /\ fid'.popcount_offset[k] >= 0

\* C17: in every state reached by new or from_bool_vec and then in-bounds sets
\* there are len / 64 + 1 blocks, one popcount_offset entry per block, and
\* popcount_offset[k] is the number of set bits in blocks[0..k); a set that
\* flips a bit of block b moves popcount_offset[k] by exactly +1 or -1 for every
\* k > b, leaves the entries k <= b unchanged and never underflows.
C17_PopcountOffsetInvariant == []PopcountOffsetsAreSums /\ [][SetMovesLaterOffsets]_vars

\* C17 witness: a set has cleared the first bit of a vector of three blocks,
\* leaving one bit in the first block and offsets 0, 1, 1
C17_Witness ==
    /\ ret.op = "set" /\ ret.ok /\ ~ret.bit /\ ret.i = 0
    /\ VecLen(fid.blocks) = 3
    /\ fid.blocks[0] = {WordBits - 1}
    /\ fid.popcount_offset[1] = 1 /\ fid.popcount_offset[2] = 1

(***************************************************************************)
(* select0 and select1 step by step: the call up to the loop, then one     *)
(* action for each iteration of the loop                                   *)
(***************************************************************************)
\* self.rank0 in select0 (bit = FALSE), self.rank1 in select1 (bit = TRUE)
rank_of(self, bit, p) == IF bit THEN rank1(self, p) ELSE rank0(self, p)

\* the call up to the loop: return end, or enter the loop with beg = 0
select_enter(self, bit, i) ==
    LET end == len(self)
        r == rank_of(self, bit, end)
    IN  IF ~r.ok THEN [SelIdle EXCEPT !.pc = "panic", !.bit = bit, !.i = i]
        ELSE IF ULe(r.val, i)
        THEN [pc |-> "done", bit |-> bit, i |-> i, beg |-> 0, end |-> end, val |-> end]
        ELSE [pc |-> "loop", bit |-> bit, i |-> i, beg |-> 0, end |-> end, val |-> 0]

\* Mutant of the iteration: the exit beg + 1 == end is missing.
select_iteration_no_unit_exit(self, s) ==
    LET p == (s.beg + s.end) \div 2
        rank == rank_of(self, s.bit, p)
    IN  IF ~rank.ok THEN [s EXCEPT !.pc = "panic"]
        ELSE IF s.beg = s.end THEN [s EXCEPT !.pc = "done", !.val = s.beg]
        ELSE IF ULt(s.i, rank.val) THEN [s EXCEPT !.end = p]
        ELSE [s EXCEPT !.beg = p]

\* one iteration of the loop
select_iteration(self, s) ==
    LET p == (s.beg + s.end) \div 2
        rank == rank_of(self, s.bit, p)
    IN  IF ~rank.ok THEN [s EXCEPT !.pc = "panic"]
        ELSE IF s.beg = s.end \/ s.beg + 1 = s.end
        THEN [s EXCEPT !.pc = "done", !.val = s.beg]
        ELSE IF ULt(s.i, rank.val) THEN [s EXCEPT !.end = p]
        ELSE IF ULe(rank.val, s.i) THEN [s EXCEPT !.beg = p]
        ELSE s

SelectCall ==
    /\ sel.pc = "none"
    /\ \E bit \in BOOLEAN, i \in (0 .. (fid.n + 1)) \cup {USIZE_MAX} :
          sel' = select_enter(fid, bit, i)
    /\ UNCHANGED <<heap_vars, trie_vars, overflow_checks, fid, bv, ret, u8s, wmat, wret>>

SelectIteration ==
    /\ sel.pc = "loop"
    /\ sel' = select_iteration(fid, sel)
    /\ UNCHANGED <<heap_vars, trie_vars, overflow_checks, fid, bv, ret, u8s, wmat, wret>>

NextSelect ==
    \/ SelectCall
    \/ SelectIteration

\* the loop is sequential code: an iteration that is due is taken
SpecSelect == InitFID /\ [][NextSelect]_vars /\ WF_vars(SelectIteration)

\* C18, in the loop: rank(beg) <= i < rank(end) and beg < end; no call fails
LoopKeepsBracket ==
    /\ sel.pc # "panic"
    /\ sel.pc = "loop" =>
         /\ sel.beg < sel.end
         /\ rank_of(fid, sel.bit, sel.beg).val <= sel.i
         /\ sel.i < rank_of(fid, sel.bit, sel.end).val
    /\ sel.pc = "done" =>
         \/ sel.val = len(fid) /\ ULe(rank_of(fid, sel.bit, len(fid)).val, sel.i)
         \/ sel.val = sel.beg /\ sel.end - sel.beg <= 1 /\ sel.beg < sel.end

\* C18, an iteration: it returns beg exactly when end - beg <= 1, and otherwise
\* strictly shrinks end - beg; the call returns len without entering the loop
\* exactly when rank(len) <= i
IterationShrinks ==
    /\ sel.pc = "loop" =>
         /\ (sel'.pc = "done") = (sel.end - sel.beg <= 1)
         /\ sel'.pc = "done" => sel'.val = sel.beg
         /\ sel'.pc = "loop" =>
              /\ sel'.end - sel'.beg < sel.end - sel.beg
              /\ sel'.end - sel'.beg >= 1
    /\ sel.pc = "none" =>
         /\ (sel'.pc = "done") = ULe(rank_of(fid, sel'.bit, len(fid)).val, sel'.i)
         /\ sel'.pc = "done" => sel'.val = len(fid)
         /\ sel'.pc \in {"done", "loop"}

\* C18: the loop of select0 and select1 terminates for every bit vector (lengths
\* 0 and 1 included) and every i: in the loop rank(beg) <= i < rank(end) and
\* beg < end, each iteration that does not return strictly shrinks end - beg,
\* it returns beg once end - beg <= 1, and the call returns len without entering
\* the loop when rank(len) <= i.
C18_SelectLoopTerminates ==
    /\ []LoopKeepsBracket
    /\ [][IterationShrinks]_vars
    /\ (sel.pc = "loop") ~> (sel.pc = "done")

\* C18 witness: select0 on a vector of at least 64 bits has left its loop after
\* narrowing the bracket from both sides
C18_Witness ==
    /\ sel.pc = "done" /\ ~sel.bit
    /\ fid.n >= WordBits
    /\ sel.val = sel.beg /\ sel.end = sel.beg + 1
    /\ sel.beg > 0 /\ sel.end < fid.n
    /\ select0(fid, sel.i).val = sel.val

(***************************************************************************)
(* U8WaveletMatrix                                                         *)
(***************************************************************************)
Depth == 8

Symbols == 0 .. 255

\* (v & mask) != 0 for a mask of one bit
bit_of(v, mask) == (v \div mask) % 2 = 1

\* 2^k
RECURSIVE shl1(_)
shl1(k) == IF k = 0 THEN 1 ELSE 2 * shl1(k - 1)

push(vec, x) == [j \in 0 .. VecLen(vec) |-> IF j = VecLen(vec) THEN x ELSE vec[j]]

append(vec, other) ==
    [j \in 0 .. (VecLen(vec) + VecLen(other) - 1) |->
        IF j < VecLen(vec) THEN vec[j] ELSE other[j - VecLen(vec)]]

\* one pass over the working order: the bits of the plane, the zeros, the ones
RECURSIVE partition_loop(_, _, _, _, _, _)
partition_loop(vec, mask, j, b, zeros, ones) ==
    IF j = VecLen(vec) THEN [bv |-> b, zeros |-> zeros, ones |-> ones]
    ELSE IF ~bit_of(vec[j], mask)
    THEN partition_loop(vec, mask, j + 1, push(b, FALSE), push(zeros, vec[j]), ones)
    ELSE partition_loop(vec, mask, j + 1, push(b, TRUE), zeros, push(ones, vec[j]))

\* Mutant of the passes: the planes are taken from the least significant bit up.
RECURSIVE new_loop_lsb_first(_, _, _)
new_loop_lsb_first(vec, i, matrix) ==
    IF i = Depth THEN [matrix |-> matrix, vec |-> vec]
    ELSE LET p == partition_loop(vec, shl1(i), 0, <<>>, <<>>, <<>>)
         IN  new_loop_lsb_first(append(p.zeros, p.ones), i + 1,
                                push(matrix, from_bool_vec(p.bv)))

\* the Depth passes: the matrix and the last working order
RECURSIVE new_loop(_, _, _)
new_loop(vec, i, matrix) ==
    IF i = Depth THEN [matrix |-> matrix, vec |-> vec]
    ELSE LET mask == shl1(Depth - 1 - i)
             p == partition_loop(vec, mask, 0, <<>>, <<>>, <<>>)
         IN  new_loop(append(p.zeros, p.ones), i + 1,
                      push(matrix, from_bool_vec(p.bv)))

\* offset[v] = i for the first i with vec[i] = v, n when there is none
first_offsets(vec, n) ==
    [v \in Symbols |->
        IF \E i \in DOMAIN vec : vec[i] = v
        THEN CHOOSE i \in DOMAIN vec :
                /\ vec[i] = v
                /\ \A j \in DOMAIN vec : vec[j] = v => i <= j
        ELSE n]

wm_new(vec) ==
    LET n == VecLen(vec)
        built == new_loop(vec, 0, <<>>)
    IN  [n |-> n, matrix |-> built.matrix, offset |-> first_offsets(built.vec, n)]

wm_len(self) == self.n

\* i = rank0(i) for a zero bit, rank0(len) + rank1(i) for a one bit
descend(f, bit, i) ==
    IF ~bit THEN rank0(f, i)
    ELSE LET zeros == rank0(f, len(f))
             ones == rank1(f, i)
         IN  IF ~zeros.ok \/ ~ones.ok THEN Panic
             ELSE checked_add(zeros.val, ones.val)

\* Mutant of the loop of access: a one bit moves to rank1(i), without the zeros
\* of the layer before it.
RECURSIVE access_loop_no_zeros(_, _, _, _)
access_loop_no_zeros(self, d, i, result) ==
    IF d = VecLen(self.matrix) THEN Ok(result)
    ELSE LET f == self.matrix[d]
             b == access(f, i)
         IN  IF ~b.ok THEN Panic
             ELSE LET next == IF b.val THEN rank1(f, i) ELSE rank0(f, i)
                  IN  IF ~next.ok THEN Panic
                      ELSE access_loop_no_zeros(self, d + 1, next.val,
                               ((result * 2) % 256) + (IF b.val THEN 1 ELSE 0))

RECURSIVE access_loop(_, _, _, _)
access_loop(self, d, i, result) ==
    IF d = VecLen(self.matrix) THEN Ok(result)
    ELSE LET f == self.matrix[d]
             b == access(f, i)
         IN  IF ~b.ok THEN Panic
             ELSE LET next == descend(f, b.val, i)
                  IN  IF ~next.ok THEN Panic
                      ELSE access_loop(self, d + 1, next.val,
                               ((result * 2) % 256) + (IF b.val THEN 1 ELSE 0))

wm_access(self, i) == access_loop(self, 0, i, 0)

RECURSIVE rank_loop(_, _, _, _)
rank_loop(self, v, d, i) ==
    IF d = VecLen(self.matrix) THEN Ok(i)
    ELSE LET mask == shl1(Depth - 1 - d)
             next == descend(self.matrix[d], bit_of(v, mask), i)
         IN  IF ~next.ok THEN Panic
             ELSE rank_loop(self, v, d + 1, next.val)

\* Mutant of rank: i is not clamped to len.
wm_rank_unclamped(self, v, i) ==
    IF self.offset[v] = self.n THEN Ok(0)
    ELSE LET p == rank_loop(self, v, 0, i)
         IN  IF ~p.ok THEN Panic
             ELSE checked_sub(p.val, self.offset[v])

wm_rank(self, v, i) ==
    IF self.offset[v] = self.n THEN Ok(0)
    ELSE LET clamped == IF ULt(self.n, i) THEN self.n ELSE i
             p == rank_loop(self, v, 0, clamped)
         IN  IF ~p.ok THEN Panic
             ELSE checked_sub(p.val, self.offset[v])

\* the layers from the last to the first, d the number of layers still to go
RECURSIVE select_loop(_, _, _, _)
select_loop(self, v, d, i) ==
    IF d = 0 THEN Ok(i)
    ELSE LET f == self.matrix[d - 1]
             mask == shl1(VecLen(self.matrix) - d)
             next == IF ~bit_of(v, mask) THEN select0(f, i)
                     ELSE LET zeros == rank0(f, len(f))
                              arg == IF zeros.ok THEN checked_sub(i, zeros.val)
                                     ELSE Panic
                          IN  IF ~arg.ok THEN Panic ELSE select1(f, arg.val)
         IN  IF ~next.ok THEN Panic
             ELSE select_loop(self, v, d - 1, next.val)

wm_select(self, v, i) ==
    IF self.offset[v] = self.n THEN Ok(self.n)
    ELSE LET start == checked_add(i, self.offset[v])
         IN  IF ~start.ok THEN Panic
             ELSE select_loop(self, v, VecLen(self.matrix), start.val)

\* Mutant of the loop of quantile: r is not decreased by the zeros it skips.
RECURSIVE quantile_loop_keeps_r(_, _, _, _, _, _)
quantile_loop_keeps_r(self, d, s, e, r, result) ==
    IF d = VecLen(self.matrix) THEN Ok(result)
    ELSE LET f == self.matrix[d]
             ze == rank0(f, e)
             zs == rank0(f, s)
             nzero == IF ze.ok /\ zs.ok THEN checked_sub(ze.val, zs.val) ELSE Panic
         IN  IF ~nzero.ok THEN Panic
             ELSE IF ULt(r, nzero.val)
             THEN quantile_loop_keeps_r(self, d + 1, zs.val, ze.val, r, (result * 2) % 256)
             ELSE LET os == descend(f, TRUE, s)
                      oe == descend(f, TRUE, e)
                  IN  IF ~os.ok \/ ~oe.ok THEN Panic
                      ELSE quantile_loop_keeps_r(self, d + 1, os.val, oe.val, r,
                               ((result * 2) % 256) + 1)

RECURSIVE quantile_loop(_, _, _, _, _, _)
quantile_loop(self, d, s, e, r, result) ==
    IF d = VecLen(self.matrix) THEN Ok(result)
    ELSE LET f == self.matrix[d]
             ze == rank0(f, e)
             zs == rank0(f, s)
             nzero == IF ze.ok /\ zs.ok THEN checked_sub(ze.val, zs.val) ELSE Panic
         IN  IF ~nzero.ok THEN Panic
             ELSE IF ULt(r, nzero.val)
             THEN quantile_loop(self, d + 1, zs.val, ze.val, r, (result * 2) % 256)
             ELSE LET os == descend(f, TRUE, s)
                      oe == descend(f, TRUE, e)
                      rest == checked_sub(r, nzero.val)
                  IN  IF ~os.ok \/ ~oe.ok \/ ~rest.ok THEN Panic
                      ELSE quantile_loop(self, d + 1, os.val, oe.val, rest.val,
                               ((result * 2) % 256) + 1)

wm_quantile(self, s, e, r) == quantile_loop(self, 0, s, e, r, 0)

(***************************************************************************)
(* Heap: a binary heap in a Vec, least element under compare at index 0    *)
(***************************************************************************)
None == [some |-> FALSE]

Some(v) == [some |-> TRUE, val |-> v]

\* Ord::cmp
cmp(a, b) == IF a < b THEN "Less" ELSE IF a = b THEN "Equal" ELSE "Greater"

\* Mutant of the comparator of topk: the frequencies alone, no tie-break by value.
TopKItem_compare_freq_only(lhs, rhs) == cmp(rhs.e - rhs.s, lhs.e - lhs.s)

\* the comparator of topk: more frequent first, smaller value first. Every item
\* pushed has s <= e, so e - s does not underflow.
TopKItem_compare(lhs, rhs) ==
    LET c1 == cmp(rhs.e - rhs.s, lhs.e - lhs.s)
        c2 == cmp(lhs.v, rhs.v)
    IN  IF c1 = "Equal" THEN c2 ELSE c1

\* (self.compare)(lhs, rhs): the comparators the library and its tests install
compare(self, lhs, rhs) ==
    CASE self.compare = "cmp" -> cmp(lhs, rhs)
      [] self.compare = "reverse" -> cmp(rhs, lhs)
      [] self.compare = "topk" -> TopKItem_compare(lhs, rhs)

Heap_new == [heap |-> <<>>, compare |-> "cmp"]

Heap_with_compare(f) == [heap |-> <<>>, compare |-> f]

Heap_len(self) == VecLen(self.heap)

Heap_is_empty(self) == VecLen(self.heap) = 0

swap(vec, i, j) == [vec EXCEPT ![i] = vec[j], ![j] = vec[i]]

\* Vec::swap_remove: the last element takes the place of the one removed
swap_remove(vec, i) ==
    [j \in 0 .. (VecLen(vec) - 2) |-> IF j = i THEN vec[VecLen(vec) - 1] ELSE vec[j]]

RECURSIVE heap_up(_, _)
heap_up(self, i) ==
    IF i = 0 THEN self
    ELSE LET parent == (i - 1) \div 2
         IN  IF compare(self, self.heap[i], self.heap[parent]) = "Less"
             THEN heap_up([self EXCEPT !.heap = swap(@, i, parent)], parent)
             ELSE self

\* Mutant of heap_down: the right child is never looked at.
RECURSIVE heap_down_left_only(_, _)
heap_down_left_only(self, i) ==
    LET left == i * 2 + 1
    IN  IF left >= Heap_len(self) THEN self
        ELSE IF compare(self, self.heap[left], self.heap[i]) = "Less"
        THEN heap_down_left_only([self EXCEPT !.heap = swap(@, i, left)], left)
        ELSE self

RECURSIVE heap_down(_, _)
heap_down(self, i) ==
    LET left == i * 2 + 1
        right == left + 1
    IN  IF left >= Heap_len(self) THEN self
        ELSE LET child == IF /\ right < Heap_len(self)
                             /\ compare(self, self.heap[right], self.heap[left]) = "Less"
                          THEN right ELSE left
             IN  IF compare(self, self.heap[child], self.heap[i]) = "Less"
                 THEN heap_down([self EXCEPT !.heap = swap(@, i, child)], child)
                 ELSE self

Heap_push(self, v) ==
    LET pushed == [self EXCEPT !.heap = push(@, v)]
    IN  heap_up(pushed, Heap_len(pushed) - 1)

\* the Option returned and the heap left
Heap_pop(self) ==
    IF Heap_is_empty(self) THEN [result |-> None, self |-> self]
    ELSE [result |-> Some(self.heap[0]),
          self |-> heap_down([self EXCEPT !.heap = swap_remove(@, 0)], 0)]

Heap_peek(self) == IF VecLen(self.heap) = 0 THEN None ELSE Some(self.heap[0])

\* Mutant of the loop of drain: for _ in 0..=num, one pop too many.
RECURSIVE drain_loop_inclusive(_, _, _, _)
drain_loop_inclusive(self, i, num, vec) ==
    IF i = num + 1 THEN [vec |-> vec, self |-> self]
    ELSE LET p == Heap_pop(self)
         IN  IF p.result.some
             THEN drain_loop_inclusive(p.self, i + 1, num, push(vec, p.result.val))
             ELSE [vec |-> vec, self |-> self]

RECURSIVE drain_loop(_, _, _, _)
drain_loop(self, i, num, vec) ==
    IF i = num THEN [vec |-> vec, self |-> self]
    ELSE LET p == Heap_pop(self)
         IN  IF p.result.some
             THEN drain_loop(p.self, i + 1, num, push(vec, p.result.val))
             ELSE [vec |-> vec, self |-> self]

\* the Vec returned and the heap left
Heap_drain(self, num) == drain_loop(self, 0, num, <<>>)

(***************************************************************************)
(* U8WaveletMatrix::topk                                                   *)
(***************************************************************************)
TopKItem_new(s, e, d, v) == [s |-> s, e |-> e, d |-> d, v |-> v]

RECURSIVE topk_loop(_, _, _, _)
topk_loop(self, h, result, k) ==
    LET p == Heap_pop(h)
    IN  IF ~p.result.some THEN Ok(result)
        ELSE LET q == p.result.val
             IN  IF ULe(k, VecLen(result)) THEN Ok(result)
                 ELSE IF q.d >= VecLen(self.matrix)
                 THEN LET count == checked_sub(q.e, q.s)
                      IN  IF ~count.ok THEN Panic
                          ELSE topk_loop(self, p.self,
                                         push(result, <<q.v, count.val>>), k)
                 ELSE LET f == self.matrix[q.d]
                          zs == rank0(f, q.s)
                          ze == rank0(f, q.e)
                          os == descend(f, TRUE, q.s)
                          oe == descend(f, TRUE, q.e)
                      IN  IF ~zs.ok \/ ~ze.ok \/ ~os.ok \/ ~oe.ok THEN Panic
                          ELSE LET h0 == IF ULt(zs.val, ze.val)
                                         THEN Heap_push(p.self,
                                                  TopKItem_new(zs.val, ze.val, q.d + 1,
                                                               (q.v * 2) % 256))
                                         ELSE p.self
                                   h1 == IF ULt(os.val, oe.val)
                                         THEN Heap_push(h0,
                                                  TopKItem_new(os.val, oe.val, q.d + 1,
                                                               ((q.v * 2) % 256) + 1))
                                         ELSE h0
                               IN  topk_loop(self, h1, result, k)

wm_topk(self, s, e, k) ==
    topk_loop(self, Heap_push(Heap_with_compare("topk"), TopKItem_new(s, e, 0, 0)),
              <<>>, k)

(***************************************************************************)
(* NaiveTrie: a node is [children, is_leaf], children a map from char to   *)
(* node; a &str is the Vec of its chars                                    *)
(***************************************************************************)
NaiveTrie_new == [children |-> <<>>, is_leaf |-> FALSE]

\* char::len_utf8
len_utf8(c) == IF c < 128 THEN 1 ELSE IF c < 2048 THEN 2 ELSE IF c < 65536 THEN 3 ELSE 4

\* the byte offset at which char k of s starts (the byte length of s for k = len)
RECURSIVE byte_offset(_, _)
byte_offset(s, k) == IF k = 0 THEN 0 ELSE byte_offset(s, k - 1) + len_utf8(s[k - 1])

\* &s[0..end]: end counts bytes and has to be a char boundary of s
str_index_to(s, end) ==
    IF \E k \in 0 .. VecLen(s) : byte_offset(s, k) = end
    THEN LET k == CHOOSE k \in 0 .. VecLen(s) : byte_offset(s, k) = end
         IN  Ok([j \in 0 .. (k - 1) |-> s[j]])
    ELSE Panic

\* HashMap::insert
insert(map, c, v) == [x \in DOMAIN map \cup {c} |-> IF x = c THEN v ELSE map[x]]

\* the node the chars of s from char j on lead to, created where missing, with
\* is_leaf set
RECURSIVE append_loop(_, _, _)
append_loop(node, s, j) ==
    IF j = VecLen(s) THEN [node EXCEPT !.is_leaf = TRUE]
    ELSE LET c == s[j]
             entry == IF c \in DOMAIN node.children THEN node.children[c]
                      ELSE NaiveTrie_new
         IN  [node EXCEPT !.children = insert(@, c, append_loop(entry, s, j + 1))]

\* node.is_leaf of the node s leads to, FALSE where the node is new
RECURSIVE is_leaf_at(_, _, _)
is_leaf_at(node, s, j) ==
    IF j = VecLen(s) THEN node.is_leaf
    ELSE IF s[j] \in DOMAIN node.children THEN is_leaf_at(node.children[s[j]], s, j + 1)
    ELSE FALSE

\* the trie after the call and is_new
NaiveTrie_append(self, s) ==
    [self |-> append_loop(self, s, 0), is_new |-> ~is_leaf_at(self, s, 0)]

RECURSIVE NaiveTrie_size(_)
RECURSIVE sum_sizes(_, _)
sum_sizes(node, keys) ==
    IF keys = {} THEN 0
    ELSE LET c == CHOOSE c \in keys : TRUE
         IN  NaiveTrie_size(node.children[c]) + sum_sizes(node, keys \ {c})

NaiveTrie_size(self) == 1 + sum_sizes(self, DOMAIN self.children)

\* Mutant of the loop of contains: any node reached counts, is_leaf or not.
RECURSIVE contains_loop_any_node(_, _, _)
contains_loop_any_node(node, s, j) ==
    IF j = VecLen(s) THEN TRUE
    ELSE IF s[j] \in DOMAIN node.children
    THEN contains_loop_any_node(node.children[s[j]], s, j + 1)
    ELSE FALSE

RECURSIVE contains_loop(_, _, _)
contains_loop(node, s, j) ==
    IF j = VecLen(s) THEN node.is_leaf = TRUE
    ELSE IF s[j] \in DOMAIN node.children
    THEN contains_loop(node.children[s[j]], s, j + 1)
    ELSE FALSE

NaiveTrie_contains(self, s) == contains_loop(self, s, 0)

\* len counts chars (i + 1 of the enumeration), the slice counts bytes
RECURSIVE prefix_loop(_, _, _, _)
prefix_loop(node, s, i, n) ==
    IF i = VecLen(s) THEN str_index_to(s, n)
    ELSE IF s[i] \in DOMAIN node.children
    THEN LET v == node.children[s[i]]
         IN  prefix_loop(v, s, i + 1, IF v.is_leaf THEN i + 1 ELSE n)
    ELSE str_index_to(s, n)

NaiveTrie_prefix(self, s) == prefix_loop(self, s, 0, 0)

(***************************************************************************)
(* The U8WaveletMatrix under test: built once from u8s, then queried       *)
(***************************************************************************)
U8Vecs == UNION {[0 .. (n - 1) -> Alphabet] : n \in 0 .. MaxSeqLen}

QuerySymbols == Alphabet \cup AbsentSymbols

WIdle == [op |-> "none", v |-> 0, i |-> 0, e |-> 0, r |-> 0, ok |-> TRUE, val |-> 0]

WReturned(op, v, i, e, r, res) ==
    [op |-> op, v |-> v, i |-> i, e |-> e, r |-> r, ok |-> res.ok, val |-> res.val]

InitWM ==
    /\ overflow_checks \in BOOLEAN
    /\ u8s \in U8Vecs
    /\ wmat = wm_new(u8s)
    /\ wret = WIdle
    /\ fid = new(0)
    /\ bv = <<>>
    /\ ret = Idle
    /\ NoSelect /\ NoHeap /\ NoTrie

\* as for the NaiveFID: a run asks one question of the matrix it has built
WAsked == wret.op # "none"

WmAccess ==
    /\ ~WAsked
    /\ \E i \in 0 .. wmat.n :
        /\ wret' = WReturned("access", 0, i, 0, 0, wm_access(wmat, i))
        /\ UNCHANGED <<sel, heap_vars, trie_vars, overflow_checks, fid, bv, ret, u8s, wmat>>

WmRank ==
    /\ ~WAsked
    /\ \E v \in QuerySymbols, i \in (0 .. (wmat.n + 1)) \cup {USIZE_MAX} :
        /\ wret' = WReturned("rank", v, i, 0, 0, wm_rank(wmat, v, i))
        /\ UNCHANGED <<sel, heap_vars, trie_vars, overflow_checks, fid, bv, ret, u8s, wmat>>

WmSelect ==
    /\ ~WAsked
    /\ \E v \in QuerySymbols, i \in (0 .. wmat.n) \cup {USIZE_MAX} :
        /\ wret' = WReturned("select", v, i, 0, 0, wm_select(wmat, v, i))
        /\ UNCHANGED <<sel, heap_vars, trie_vars, overflow_checks, fid, bv, ret, u8s, wmat>>

WmQuantile ==
    /\ ~WAsked
    /\ \E s \in 0 .. wmat.n :
         \E e \in s .. wmat.n :
           \E r \in 0 .. (e - s - 1) :
             /\ wret' = WReturned("quantile", 0, s, e, r, wm_quantile(wmat, s, e, r))
             /\ UNCHANGED <<sel, heap_vars, trie_vars, overflow_checks, fid, bv, ret, u8s, wmat>>

WmTopk ==
    /\ ~WAsked
    /\ \E s \in 0 .. wmat.n :
         \E e \in s .. wmat.n :
           \E k \in (0 .. (e - s + 1)) \cup {USIZE_MAX} :
             /\ wret' = WReturned("topk", 0, s, e, k, wm_topk(wmat, s, e, k))
             /\ UNCHANGED <<sel, heap_vars, trie_vars, overflow_checks, fid, bv, ret, u8s, wmat>>

NextWM ==
    \/ WmAccess
    \/ WmRank
    \/ WmSelect
    \/ WmQuantile

SpecWM == InitWM /\ [][NextWM]_vars

\* tests::topk: the matrix is built, then topk is asked
NextTopk == WmTopk

SpecTopk == InitWM /\ [][NextTopk]_vars

(***************************************************************************)
(* Claims about U8WaveletMatrix, checked under SpecWM                      *)
(***************************************************************************)
\* the indices j < i of u8s that hold v
Occurrences(v, i) == {j \in DOMAIN u8s : j < i /\ u8s[j] = v}

\* C7: for every sequence V and every i < len(V), U8WaveletMatrix::new(V).access(i)
\* is V[i].
C7_AccessRoundTrip ==
    /\ wm_len(wmat) = VecLen(u8s)
    /\ wret.op = "none" =>
         \A i \in DOMAIN u8s :
            LET a == wm_access(wmat, i) IN a.ok /\ a.val = u8s[i]
    /\ (wret.op = "access" /\ wret.i < wm_len(wmat)) =>
         (wret.ok /\ wret.val = u8s[wret.i])

\* C7 witness: access has returned the last symbol of a sequence of three symbols
\* that is not in the order of the matrix.
C7_Witness ==
    /\ wret.op = "access" /\ wret.ok
    /\ wmat.n = 3 /\ wret.i = 2 /\ wret.val = 2
    /\ u8s[0] = 255 /\ u8s[1] = 1

\* what rank(v, i) must return
RankIs(res, v, i) ==
    /\ res.ok
    /\ res.val = Cardinality(Occurrences(v, IF ULt(wmat.n, i) THEN wmat.n ELSE i))

\* C8: for every V, every symbol v and every i, rank(v, i) is the number of
\* indices j < min(i, len) with V[j] = v: 0 for a symbol that never occurs, and
\* no failure for i > len.
C8_RankCountsSymbol ==
    /\ wret.op = "none" =>
         \A v \in QuerySymbols : \A i \in (0 .. (wmat.n + 2)) \cup {USIZE_MAX} :
            RankIs(wm_rank(wmat, v, i), v, i)
    /\ wret.op = "rank" => RankIs(wret, wret.v, wret.i)

\* C8 witness: rank beyond len has been clamped and has counted two occurrences.
C8_Witness ==
    /\ wret.op = "rank" /\ wret.ok
    /\ wret.i = wmat.n + 1 /\ wret.val = 2
    /\ wret.v = 1 /\ wmat.n = 3

\* what select(v, i) must return
SelectIsOccurrence(res, v, i) ==
    LET all == Occurrences(v, wmat.n)
    IN  /\ res.ok
        /\ IF ULt(i, Cardinality(all))
           THEN /\ res.val \in all
                /\ Cardinality(Occurrences(v, res.val)) = i
           ELSE res.val = wmat.n

\* C9: if v occurs more than i times then select(v, i) is the index of the i-th
\* occurrence of v; otherwise select(v, i) = len, without failure, for every i.
C9_SelectFindsOccurrence ==
    /\ wret.op = "none" =>
         \A v \in QuerySymbols : \A i \in (0 .. (wmat.n + 1)) \cup {USIZE_MAX} :
            SelectIsOccurrence(wm_select(wmat, v, i), v, i)
    /\ wret.op = "select" => SelectIsOccurrence(wret, wret.v, wret.i)

\* select is right for every i that leaves room for an offset below usize::MAX.
SelectBelowOverflow ==
    /\ wret.op = "none" =>
         \A v \in QuerySymbols : \A i \in 0 .. (wmat.n + 1) :
            SelectIsOccurrence(wm_select(wmat, v, i), v, i)
    /\ (wret.op = "select" /\ wret.i >= 0) => SelectIsOccurrence(wret, wret.v, wret.i)

\* the element at index r of V[s..e) sorted ascending
SortedAt(s, e, r) ==
    CHOOSE x \in Symbols :
        /\ Cardinality({j \in s .. (e - 1) : u8s[j] < x}) <= r
        /\ r < Cardinality({j \in s .. (e - 1) : u8s[j] <= x})

\* C10: for every 0 <= s <= e <= len and every r < e - s, quantile(s, e, r) is
\* the element at index r of V[s..e) sorted ascending.
C10_QuantileIsSorted ==
    /\ wret.op = "none" =>
         \A s \in 0 .. wmat.n : \A e \in s .. wmat.n : \A r \in 0 .. (e - s - 1) :
            LET q == wm_quantile(wmat, s, e, r)
            IN  q.ok /\ q.val = SortedAt(s, e, r)
    /\ wret.op = "quantile" =>
         (wret.ok /\ wret.val = SortedAt(wret.i, wret.e, wret.r))

\* C10 witness: quantile over a range that ends at len has returned its median,
\* which is not where the range holds it.
C10_Witness ==
    /\ wret.op = "quantile" /\ wret.ok
    /\ wmat.n = 3 /\ wret.i = 0 /\ wret.e = 3 /\ wret.r = 1
    /\ wret.val = 2 /\ u8s[1] # 2

\* the true frequency of x in V[s..e)
Frequency(s, e, x) == Cardinality({j \in s .. (e - 1) : u8s[j] = x})

\* (v, c) comes before (x, d): more frequent first, smaller value first
Before(v, c, x, d) == c > d \/ (c = d /\ v < x)

\* res is the first min(k, D) entries of the list of (symbol, frequency in
\* V[s..e)) sorted by Before; a k of the upper half of usize is above any D
TopkIs(res, s, e, k) ==
    LET present == {u8s[j] : j \in s .. (e - 1)}
        D == Cardinality(present)
        n == VecLen(res.val)
        listed == {res.val[j][1] : j \in 0 .. (n - 1)}
    IN  /\ res.ok
        /\ n = IF k < 0 \/ k > D THEN D ELSE k
        /\ \A j \in 0 .. (n - 1) :
              /\ res.val[j][1] \in present
              /\ res.val[j][2] = Frequency(s, e, res.val[j][1])
        /\ \A j \in 0 .. (n - 2) :
              Before(res.val[j][1], res.val[j][2], res.val[j + 1][1], res.val[j + 1][2])
        /\ \A j \in 0 .. (n - 1) : \A x \in present \ listed :
              Before(res.val[j][1], res.val[j][2], x, Frequency(s, e, x))

\* C11: for every 0 <= s <= e <= len and every k, topk(s, e, k) returns the first
\* min(k, D) entries (D distinct symbols in V[s..e)) of the (symbol, frequency in
\* V[s..e)) pairs sorted by descending frequency, then ascending symbol; it
\* returns the empty list when k = 0 or s = e.
C11_TopkIsSortedPrefix ==
    wret.op = "topk" =>
        /\ TopkIs(wret, wret.i, wret.e, wret.r)
        /\ (wret.r = 0 \/ wret.i = wret.e) => wret.val = <<>>

\* C11 witness: topk has returned two symbols of equal frequency, the smaller
\* first, from a range whose first symbol is the larger one, and left out a third
C11_Witness ==
    /\ wret.op = "topk" /\ wret.ok
    /\ wret.i = 0 /\ wret.e = 3 /\ wret.r = 2
    /\ u8s[0] = 255 /\ u8s[1] = 2 /\ u8s[2] = 1
    /\ wret.val = [j \in 0 .. 1 |-> IF j = 0 THEN <<1, 1>> ELSE <<2, 1>>]

\* the working order the Depth passes of new end with
FinalOrder == new_loop(u8s, 0, <<>>).vec

\* v with its Depth bits in reverse order
RECURSIVE reverse_bits(_, _)
reverse_bits(v, k) ==
    IF k = 0 THEN 0
    ELSE (v % 2) * shl1(k - 1) + reverse_bits(v \div 2, k - 1)

\* vec holds the symbols of u8s, each as often as u8s does
SameSymbols(vec) ==
    /\ VecLen(vec) = VecLen(u8s)
    /\ \A x \in Alphabet :
          Cardinality({j \in DOMAIN vec : vec[j] = x})
              = Cardinality({j \in DOMAIN u8s : u8s[j] = x})

\* offset[v] is the first index of v in vec, len when there is none
OffsetsAreFirstIn(vec) ==
    \A v \in QuerySymbols :
        IF \E j \in DOMAIN vec : vec[j] = v
        THEN /\ wmat.offset[v] \in DOMAIN vec
             /\ vec[wmat.offset[v]] = v
             /\ \A j \in 0 .. (wmat.offset[v] - 1) : vec[j] # v
        ELSE wmat.offset[v] = wmat.n

\* C16 as stated: the working order after the 8 passes is V sorted (stably) by
\* ascending numeric symbol value, and offset[v] is the index of the first v in
\* it, or len if v never occurs.
C16_FinalOrderIsNumericSort ==
    wret.op = "none" =>
        LET final == FinalOrder
        IN  /\ SameSymbols(final)
            /\ \A j \in 0 .. (VecLen(final) - 2) : final[j] <= final[j + 1]
            /\ OffsetsAreFirstIn(final)

\* C16 amended: the working order after the 8 passes is V sorted (stably) by
\* the symbol value read with its bits reversed, and offset[v] is the index of
\* the first v in it, or len if v never occurs.
C16_FinalOrderIsBitReversedSort ==
    wret.op = "none" =>
        LET final == FinalOrder
        IN  /\ SameSymbols(final)
            /\ \A j \in 0 .. (VecLen(final) - 2) :
                  reverse_bits(final[j], Depth) <= reverse_bits(final[j + 1], Depth)
            /\ OffsetsAreFirstIn(final)

\* C16 witness: a matrix built from 1, 2, 128 ends with the order 128, 2, 1 and
\* the offsets of that order
C16_Witness ==
    /\ wret.op = "none"
    /\ VecLen(u8s) = 3 /\ u8s[0] = 1 /\ u8s[1] = 2 /\ u8s[2] = 128
    /\ FinalOrder[0] = 128 /\ FinalOrder[1] = 2 /\ FinalOrder[2] = 1
    /\ wmat.offset[128] = 0 /\ wmat.offset[2] = 1 /\ wmat.offset[1] = 2
    /\ wmat.offset[0] = 3

(***************************************************************************)
(* The Heap under test: pushed to, popped, peeked and drained in any order *)
(***************************************************************************)
HReturned(op, n, m, result) == [op |-> op, n |-> n, m |-> m, result |-> result]

\* held without one x / without the elements of vec
Without(bag, x) == [bag EXCEPT ![x] = @ - 1]

WithoutAll(bag, vec) ==
    [x \in HeapElems |-> bag[x] - Cardinality({j \in DOMAIN vec : vec[j] = x})]

InitHeap ==
    /\ heap \in {Heap_new, Heap_with_compare("reverse")}
    /\ held = [x \in HeapElems |-> 0]
    /\ pushes = 0
    /\ pops = 0
    /\ hret = HIdle
    /\ overflow_checks = TRUE
    /\ fid = new(0)
    /\ bv = <<>>
    /\ ret = Idle
    /\ u8s = <<>>
    /\ wmat = [n |-> 0, matrix |-> <<>>, offset |-> <<>>]
    /\ wret = Idle
    /\ NoSelect /\ NoTrie

bits_vars == <<overflow_checks, fid, bv, ret, u8s, wmat, wret, sel>>

HeapPush ==
    /\ pushes < MaxPushes
    /\ \E v \in HeapElems :
        /\ heap' = Heap_push(heap, v)
        /\ held' = [held EXCEPT ![v] = @ + 1]
        /\ pushes' = pushes + 1
        /\ hret' = HReturned("push", v, Heap_len(heap), <<>>)
    /\ UNCHANGED <<pops, bits_vars, trie_vars>>

HeapPop ==
    LET p == Heap_pop(heap)
    IN  /\ heap' = p.self
        /\ held' = IF p.result.some THEN Without(held, p.result.val) ELSE held
        /\ pops' = IF p.result.some THEN pops + 1 ELSE pops
        /\ hret' = HReturned("pop", 0, Heap_len(heap), p.result)
        /\ UNCHANGED <<pushes, bits_vars, trie_vars>>

HeapPeek ==
    /\ hret' = HReturned("peek", 0, Heap_len(heap), Heap_peek(heap))
    /\ UNCHANGED <<heap, held, pushes, pops, bits_vars, trie_vars>>

HeapDrain ==
    \E num \in (0 .. (MaxPushes + 1)) \cup {USIZE_MAX} :
        LET d == Heap_drain(heap, num)
        IN  /\ heap' = d.self
            /\ held' = WithoutAll(held, d.vec)
            /\ pops' = pops + VecLen(d.vec)
            /\ hret' = HReturned("drain", num, Heap_len(heap), d.vec)
            /\ UNCHANGED <<pushes, bits_vars, trie_vars>>

NextHeap ==
    \/ HeapPush
    \/ HeapPop
    \/ HeapPeek
    \/ HeapDrain

SpecHeap == InitHeap /\ [][NextHeap]_vars

(***************************************************************************)
(* Claims about Heap, checked under SpecHeap                               *)
(***************************************************************************)
\* how often each element is in the Vec of the heap
BagOf(vec) == [x \in HeapElems |-> Cardinality({j \in DOMAIN vec : vec[j] = x})]

\* x is minimal under the comparator among the elements of bag
MinimalIn(x, bag) ==
    \A y \in HeapElems : bag[y] > 0 => compare(heap, x, y) # "Greater"

\* C12: after any pushes and pops, under the natural or the reverse order, pop
\* on a non-empty heap removes exactly one element and returns a minimal one of
\* those held, peek returns that minimal element and removes nothing, len is
\* pushes minus successful pops, and pop and peek on an empty heap return None.
C12_PopReturnsMinimum ==
    /\ BagOf(heap.heap) = held
    /\ Heap_len(heap) = pushes - pops
    /\ hret.op = "pop" =>
         /\ hret.result.some = (hret.m > 0)
         /\ hret.result.some =>
              /\ Heap_len(heap) = hret.m - 1
              /\ MinimalIn(hret.result.val, [held EXCEPT ![hret.result.val] = @ + 1])
         /\ ~hret.result.some => Heap_len(heap) = 0
    /\ LET top == Heap_peek(heap)
       IN  /\ top.some = (Heap_len(heap) > 0)
           /\ top.some => held[top.val] > 0 /\ MinimalIn(top.val, held)
           /\ top.some => Heap_pop(heap).result = top
    /\ hret.op = "peek" => hret.result = Heap_peek(heap) /\ Heap_len(heap) = hret.m

\* C12 witness: under the reverse order the first pop has returned the greatest
\* of five elements and four are left, two of them the least
C12_Witness ==
    /\ hret.op = "pop" /\ hret.result.some /\ hret.result.val = 4
    /\ heap.compare = "reverse"
    /\ hret.m = 5 /\ Heap_len(heap) = 4
    /\ held[4] = 0 /\ held[1] = 2
    /\ pops = 1

\* min(n, m) for a usize n, whose upper half is above any m
Taken(n, m) == IF n < 0 \/ n > m THEN m ELSE n

\* C13: for a heap of m elements drain(n) returns the min(n, m) smallest elements
\* in non-decreasing order under the comparator, removes exactly those (len
\* becomes m - min(n, m)) and stops without failure when the heap empties first.
C13_DrainTakesSmallest ==
    hret.op = "drain" =>
        LET vec == hret.result
            taken == Taken(hret.n, hret.m)
        IN  /\ VecLen(vec) = taken
            /\ \A j \in 0 .. (taken - 2) : compare(heap, vec[j], vec[j + 1]) # "Greater"
            /\ \A j \in 0 .. (taken - 1) : MinimalIn(vec[j], held)
            /\ BagOf(heap.heap) = held
            /\ Heap_len(heap) = hret.m - taken
            /\ Heap_len(heap) = pushes - pops

\* C13 witness: drain(3) of five elements has returned 1, 1, 3 in the natural
\* order and left two elements
C13_Witness ==
    /\ hret.op = "drain" /\ hret.n = 3 /\ hret.m = 5
    /\ heap.compare = "cmp"
    /\ hret.result = [j \in 0 .. 2 |-> IF j = 2 THEN 3 ELSE 1]
    /\ Heap_len(heap) = 2

(***************************************************************************)
(* The NaiveTrie under test: appended to, then queried                     *)
(***************************************************************************)
Strs == UNION {[0 .. (n - 1) -> Chars] : n \in 0 .. MaxWordLen}

\* seen: whether s had been appended when the call was made
TReturned(op, s, r) ==
    [op |-> op, s |-> s, seen |-> s \in appended, ok |-> r.ok, val |-> r.val]

InitTrie ==
    /\ trie = NaiveTrie_new
    /\ appended = {}
    /\ tret = TIdle
    /\ overflow_checks = TRUE
    /\ fid = new(0)
    /\ bv = <<>>
    /\ ret = Idle
    /\ u8s = <<>>
    /\ wmat = [n |-> 0, matrix |-> <<>>, offset |-> <<>>]
    /\ wret = Idle
    /\ NoSelect /\ NoHeap

\* as the tests do: a run appends, then asks one question of the trie it has built
TAsked == tret.op \notin {"none", "append"}

TrieAppend ==
    /\ ~TAsked
    /\ \E s \in Strs :
        LET a == NaiveTrie_append(trie, s)
        IN  /\ s \in appended \/ Cardinality(appended) < MaxAppended
            /\ trie' = a.self
            /\ appended' = appended \cup {s}
            /\ tret' = TReturned("append", s, Ok(a.is_new))
    /\ UNCHANGED <<bits_vars, heap_vars>>

TrieSize ==
    /\ ~TAsked
    /\ tret' = TReturned("size", <<>>, Ok(NaiveTrie_size(trie)))
    /\ UNCHANGED <<trie, appended, bits_vars, heap_vars>>

TrieContains ==
    /\ ~TAsked
    /\ \E s \in Strs : tret' = TReturned("contains", s, Ok(NaiveTrie_contains(trie, s)))
    /\ UNCHANGED <<trie, appended, bits_vars, heap_vars>>

TriePrefix ==
    /\ ~TAsked
    /\ \E s \in Strs : tret' = TReturned("prefix", s, NaiveTrie_prefix(trie, s))
    /\ UNCHANGED <<trie, appended, bits_vars, heap_vars>>

NextTrie ==
    \/ TrieAppend
    \/ TrieSize
    \/ TrieContains
    \/ TriePrefix

SpecTrie == InitTrie /\ [][NextTrie]_vars

(***************************************************************************)
(* Claims about NaiveTrie, checked under SpecTrie                          *)
(***************************************************************************)
\* the first k chars of s
Take(s, k) == [j \in 0 .. (k - 1) |-> s[j]]

\* the longest prefix of s that was appended, the empty string when there is none
LongestAppendedPrefix(s) ==
    LET ks == {k \in 0 .. VecLen(s) : Take(s, k) \in appended}
    IN  IF ks = {} THEN <<>>
        ELSE Take(s, CHOOSE k \in ks : \A m \in ks : m <= k)

\* C14: after any appends and for every query s, multi-byte chars included,
\* prefix(s) returns without failure the longest prefix of s that was appended,
\* or the empty string when no appended non-empty string is a prefix of s.
C14_PrefixIsLongestAppended ==
    tret.op = "prefix" => (tret.ok /\ tret.val = LongestAppendedPrefix(tret.s))

\* the distinct non-empty prefixes of the appended strings
NonEmptyPrefixes == UNION {{Take(w, k) : k \in 1 .. VecLen(w)} : w \in appended}

\* C15: after any appends contains(s) is true if and only if s itself was
\* appended (not for a proper prefix or an extension of an appended string),
\* append(s) returns true exactly when s was not appended before, and size() is 1
\* plus the number of distinct non-empty prefixes of the appended strings.
C15_ContainsIffAppended ==
    /\ \A s \in Strs : NaiveTrie_contains(trie, s) = (s \in appended)
    /\ NaiveTrie_size(trie) = 1 + Cardinality(NonEmptyPrefixes)
    /\ tret.op = "contains" => tret.val = (tret.s \in appended)
    /\ tret.op = "size" => tret.val = 1 + Cardinality(NonEmptyPrefixes)
    /\ tret.op = "append" => tret.val = ~tret.seen

\* C15 witness: append has returned false for a two-char string with a
\* three-byte char that was appended before, in a trie of three nodes that does
\* not contain the proper prefix of the string
C15_Witness ==
    /\ tret.op = "append" /\ tret.val = FALSE /\ tret.seen
    /\ VecLen(tret.s) = 2 /\ tret.s[1] = 12354
    /\ NaiveTrie_size(trie) = 3
    /\ ~NaiveTrie_contains(trie, Take(tret.s, 1))

=============================================================================
